---- MODULE Spec2Model ----
(***************************************************************************)
(* Resilient LLM invocation of ados.layer2_kernel.agents: the TTL cache    *)
(* (_llm_cache, _cache_key, _cache_get, _cache_put), the error classifiers *)
(* and _invoke_with_retry (cache check, primary retries with exponential   *)
(* back-off, ordered fallback cascade, exhaustion).                        *)
(***************************************************************************)
EXTENDS Integers, Sequences, FiniteSets, TLC

\* ------------------------------------------------------------------------
\* Bounds of the model
\* ------------------------------------------------------------------------
MaxTime == 10           \* Spec: the wall clock runs over 0..MaxTime (seconds)
MaxTimeCalls == 3       \* SpecCalls: the wall clock runs over 0..MaxTimeCalls
PosTTL == 2             \* the positive cache TTL that is configured (seconds)
MaxStored == 2          \* SpecConcurrent: no call starts after so many cache writes

\* Program constants
DefaultMaxRetries == 3  \* agents.py:103  max_retries: int = 3
FallbackPause == 1      \* agents.py:174  _time.sleep(1)

\* Python's None where a response text is expected.
None == "None"

\* The response texts a model can return.
Texts == {"t1", "t2"}

\* The values of the "query" prompt variable.
Queries == {"q1", "q2"}

\* The requests (threads) that can call into the module.
Procs == {"r1", "r2"}

\* ------------------------------------------------------------------------
\* Invocation parameters and the cache key
\* ------------------------------------------------------------------------
\* A params dict is an insertion-ordered sequence of <<name, value>> pairs
\* with distinct names.  ParamNames lists the names in the order in which
\* json.dumps(sort_keys=True) emits them.
ParamNames == <<"query", "schema_context">>

Templates == {"INTENT_PROMPT", "DISCOVERY_PROMPT"}

\* The dicts the callers build: the same two variables, in either insertion
\* order.
ParamInputs ==
    UNION { { << <<"query", q>>, <<"schema_context", "s">> >>,
              << <<"schema_context", "s">>, <<"query", q>> >> } : q \in Queries }

HasName(params, n) == \E i \in 1..Len(params) : params[i][1] = n

ValueOf(params, n) == params[CHOOSE i \in 1..Len(params) : params[i][1] = n][2]

\* json.dumps(params, sort_keys=True, ...): the pairs in sorted key order.
RECURSIVE Canonical(_, _)
Canonical(params, k) ==
    IF k > Len(ParamNames) THEN << >>
    ELSE IF HasName(params, ParamNames[k])
         THEN << <<ParamNames[k], ValueOf(params, ParamNames[k])>> >>
              \o Canonical(params, k + 1)
         ELSE Canonical(params, k + 1)

\* Mutant of _cache_key: json.dumps without sort_keys.
_cache_key_unsorted(params) == params

\* _cache_key: sha256 of the canonical serialisation; the digest is taken
\* to be injective, so the key is the canonical serialisation itself.  The
\* chain (prompt template) is no argument of _cache_key.
_cache_key(params) == Canonical(params, 1)

\* ------------------------------------------------------------------------
\* The TTL cache:  _llm_cache : key -> <<timestamp, response>>
\* ------------------------------------------------------------------------
\* dict.pop(key, None)
DictPop(cache, key) == [k \in DOMAIN cache \ {key} |-> cache[k]]

\* dict[key] = entry
DictSet(cache, key, entry) ==
    [k \in DOMAIN cache \cup {key} |-> IF k = key THEN entry ELSE cache[k]]

\* An entry is expired when  time.time() - ts > ttl.
Expired(entry, ttl, t) == t - entry[1] > ttl

\* Mutant of _cache_get: a hit refreshes the entry's timestamp.
_cache_get_touch(cache, key, ttl, t) ==
    IF ttl <= 0 THEN <<None, cache>>
    ELSE IF key \notin DOMAIN cache THEN <<None, cache>>
    ELSE IF Expired(cache[key], ttl, t) THEN <<None, DictPop(cache, key)>>
    ELSE <<cache[key][2], DictSet(cache, key, <<t, cache[key][2]>>)>>

\* Mutant of _cache_get: an expired entry is reported absent and left in place.
_cache_get_keep_expired(cache, key, ttl, t) ==
    IF ttl <= 0 THEN <<None, cache>>
    ELSE IF key \notin DOMAIN cache THEN <<None, cache>>
    ELSE IF Expired(cache[key], ttl, t) THEN <<None, cache>>
    ELSE <<cache[key][2], cache>>

\* _cache_get: <<returned value, cache afterwards>>.
_cache_get(cache, key, ttl, t) ==
    IF ttl <= 0 THEN <<None, cache>>
    ELSE IF key \notin DOMAIN cache THEN <<None, cache>>
    ELSE IF Expired(cache[key], ttl, t) THEN <<None, DictPop(cache, key)>>
    ELSE <<cache[key][2], cache>>

\* Mutant of _cache_put: stores whatever the TTL is.
_cache_put_unguarded(cache, key, value, ttl, t) == DictSet(cache, key, <<t, value>>)

\* Mutant of _cache_put: the entry is written without the response text.
_cache_put_no_text(cache, key, value, ttl, t) ==
    IF ttl > 0 THEN DictSet(cache, key, <<t, None>>) ELSE cache

\* _cache_put: the cache afterwards.
_cache_put(cache, key, value, ttl, t) ==
    IF ttl > 0 THEN DictSet(cache, key, <<t, value>>) ELSE cache

\* ------------------------------------------------------------------------
\* Error classification (keyword search in the lower-cased message)
\* ------------------------------------------------------------------------
\* A message is modelled by the set of keywords its lower-cased text contains.
RateMarkers == {"429", "rate_limit", "rate limit"}
DailyMarkers == {"per day", "tpd"}
UnavailableMarkers ==
    {"decommission", "not found", "does not exist", "model_not_active", "invalid model"}

_is_rate_limit(msg) == msg \cap RateMarkers # {}

\* Mutant of _is_daily_limit: only "per day" is looked for, "tpd" is not.
_is_daily_limit_per_day_only(msg) == _is_rate_limit(msg) /\ "per day" \in msg

_is_daily_limit(msg) == _is_rate_limit(msg) /\ msg \cap DailyMarkers # {}

_is_model_unavailable(msg) == msg \cap UnavailableMarkers # {}

\* The messages a model call can fail with.
Messages ==
    { {"429"},                  \* per-minute rate limit
      {"429", "tpd"},           \* daily token limit
      {"per day"},              \* daily marker without a rate marker
      {"not found"},            \* model unavailable, no rate marker
      {} }                      \* anything else (timeout, auth, ...)

\* ------------------------------------------------------------------------
\* Settings
\* ------------------------------------------------------------------------
\* LLM_FALLBACK_MODELS after split(","): a sequence of tokens, a token being a
\* sequence of characters; " " is a blank, a letter is a one-letter model name.
RECURSIVE lstrip(_)
lstrip(tok) ==
    IF tok # << >> /\ Head(tok) = " " THEN lstrip(Tail(tok)) ELSE tok

RECURSIVE rstrip(_)
rstrip(tok) ==
    IF tok # << >> /\ tok[Len(tok)] = " " THEN rstrip(SubSeq(tok, 1, Len(tok) - 1)) ELSE tok

strip(tok) == rstrip(lstrip(tok))

\* _get_fallback_models: [m.strip() for m in raw.split(",") if m.strip()]
RECURSIVE _get_fallback_models(_)
_get_fallback_models(raw) ==
    IF raw = << >> THEN << >>
    ELSE IF strip(Head(raw)) # << >>
         THEN <<strip(Head(raw))>> \o _get_fallback_models(Tail(raw))
         ELSE _get_fallback_models(Tail(raw))

\* The configured lists:  "" (one empty token),  "A, "  and  "A, B ,C, ".
FallbackRaws ==
    { << << >> >>,
      << <<"A">>, <<" ">> >>,
      << <<"A">>, <<" ", "B", " ">>, <<"C">>, <<" ">> >> }

CacheTTLs == {-1, 0, PosTTL}

\* ------------------------------------------------------------------------
\* State
\* ------------------------------------------------------------------------
VARIABLES
    settings,     \* [cache_ttl_seconds, fallback_models]: fixed at process start
    horizon,      \* the last second of the clock that is observed (never changes)
    now,          \* time.time()
    _llm_cache,   \* the module-level cache dict
    pc,           \* where each request stands inside _invoke_with_retry
    loc,          \* the locals of each request's current _invoke_with_retry call
    ret,          \* how each request's last call ended: returned text or raised error
    tr,           \* history: model calls, sleeps and cache writes of the current call
    last          \* history: per params mapping, the last finished call if it returned a text

\* The stage functions and the pipeline above _invoke_with_retry.
VARIABLES
    stage_in,     \* the stage function that is called, with its arguments and
                  \* the way its _invoke_with_retry call ends
    stage_out,    \* what that call of the stage function does
    kg,           \* ADOSSystem.knowledge_graph: the Neo4j graph or _FallbackKG
    ppc,          \* where ADOSSystem.query stands
    state,        \* the PipelineState of the run
    result,       \* what ADOSSystem.query gives its caller
    log           \* history: the stage functions and collaborators called, in order

\* Requests that run at the same time over the shared cache.
VARIABLES
    stored,       \* history: the _cache_put calls made, each [key, ts, text]
    concurrent    \* history: the call started last began while the other
                  \* request's call was under way

invoker_vars == <<settings, horizon, now, _llm_cache, pc, loc, ret, tr, last>>

pipeline_vars == <<stage_in, stage_out, kg, ppc, state, result, log>>

history_vars == <<stored, concurrent>>

vars == <<invoker_vars, pipeline_vars, history_vars>>

\* The error objects.  id numbers the model call of the invocation that
\* raised the error, so that two errors with the same message stay distinct
\* objects; id 0 is an error that no model call raised.
Err(msg, id) == [msg |-> msg, id |-> id]

\* raise None  ->  TypeError: exceptions must derive from BaseException
TypeErrorNone == Err({"exceptions must derive from baseexception"}, 0)

\* last_error: Exception | None = None
NoError == Err({}, -1)

\* settings.llm.model_name
PrimaryModel == <<"P">>

\* The mapping a params dict denotes, whatever its insertion order.
ParamSet(params) == {params[i] : i \in 1..Len(params)}

\* entry is the local of _cache_get.
NoLocals ==
    [chain |-> "", params |-> {}, ckey |-> << >>, max_retries |-> 0,
     attempt |-> 0, fb |-> 0, last_error |-> NoError, entry |-> << >>]

NoSummary == [chain |-> "", text |-> None, model |-> << >>, ncalls |-> 0, stored |-> -1]

\* calls: the model calls, in order, each [model, ok, text, err];
\* sleeps: the sleeps, in order, each [kind, secs, after], after being the
\*   number of model calls made before it;  puts: the _cache_put calls;
\* t0: the time of the cache lookup, seen: the entry the key had then (<< >>
\*   if none), hit: whether _cache_get returned a value;
\* prev: the last finished call with the same params mapping, if it returned
\*   a text (NoSummary if there is none or it raised).
NoTrace ==
    [calls |-> << >>, sleeps |-> << >>, puts |-> 0, t0 |-> 0, seen |-> << >>,
     hit |-> FALSE, prev |-> NoSummary]

NoReturn == [kind |-> "", text |-> None, err |-> NoError]

\* No stage function is being called.
NoCall ==
    [stage |-> "", result_data |-> << >>,
     outcome |-> [kind |-> "", text |-> << >>, err |-> NoError]]

NoOutcome ==
    [raised |-> FALSE, exc |-> NoError,
     result |-> [agent_name |-> "", status |-> "", data |-> << >>]]

\* The PipelineState at the start of a run: every payload empty, no query
\* text, no rows, an empty trace.
NoState ==
    [intent |-> << >>, discovery |-> << >>, sql |-> << >>, result_data |-> << >>,
     trust |-> << >>, analysis |-> << >>, steps |-> << >>]

NoResult == [raised |-> FALSE, exc |-> NoError, value |-> << >>]

\* No stage function is being called and no query is being processed.
PipelineIdle ==
    /\ stage_in = NoCall
    /\ stage_out = NoOutcome
    /\ ppc = "idle"
    /\ state = NoState
    /\ result = NoResult
    /\ log = << >>

PipelineInit ==
    /\ PipelineIdle
    /\ kg = "neo4j"

\* No request has called into the module yet.
NoHistory ==
    /\ stored = {}
    /\ concurrent = FALSE

Init ==
    /\ PipelineInit
    /\ NoHistory
    /\ settings \in [cache_ttl_seconds : CacheTTLs, fallback_models : FallbackRaws]
    /\ horizon = MaxTime
    /\ now = 0
    /\ _llm_cache = << >>
    /\ pc = [p \in Procs |-> "idle"]
    /\ loc = [p \in Procs |-> NoLocals]
    /\ ret = [p \in Procs |-> NoReturn]
    /\ tr = [p \in Procs |-> NoTrace]
    /\ last = << >>

cache_ttl == settings.cache_ttl_seconds

Fallbacks == _get_fallback_models(settings.fallback_models)

\* ------------------------------------------------------------------------
\* Control flow of _invoke_with_retry
\* ------------------------------------------------------------------------
\* for fb_model in _get_fallback_models(settings): next position, or line 180
FallbackPc(i) == IF i <= Len(Fallbacks) THEN "fallback" ELSE "exhausted"

\* Mutant of PrimaryPc: while True, the loop has no budget.
PrimaryPcNoBudget(attempt, max_retries) == "primary"

\* for attempt in range(max_retries): next attempt, or the fallback loop
PrimaryPc(attempt, max_retries) ==
    IF attempt < max_retries THEN "primary" ELSE FallbackPc(1)

\* wait = 2 ** attempt
RECURSIVE Pow2(_)
Pow2(n) == IF n = 0 THEN 1 ELSE 2 * Pow2(n - 1)

\* Mutant of BackoffWait: wait = 2 * attempt.
BackoffWaitLinear(attempt) == 2 * attempt

\* Mutant of BackoffWait: no wait after the last attempt of the default budget.
BackoffWaitNotAfterLast(attempt) ==
    IF attempt + 1 = DefaultMaxRetries THEN 0 ELSE Pow2(attempt)

BackoffWait(attempt) == Pow2(attempt)

\* Mutant of PrimaryVerdict: an error that is no rate limit falls through to
\* the fallback models instead of being raised.
PrimaryVerdictNoRaise(msg) ==
    IF _is_daily_limit(msg) THEN "break"
    ELSE IF _is_rate_limit(msg) THEN "sleep"
    ELSE "break"

\* Mutant of PrimaryVerdict: a rate limit of any kind ends the primary loop.
PrimaryVerdictNoRetry(msg) ==
    IF _is_rate_limit(msg) THEN "break" ELSE "raise"

\* Lines 135-150: what the except clause of the primary loop does with an error.
PrimaryVerdict(msg) ==
    IF _is_daily_limit(msg) THEN "break"
    ELSE IF _is_rate_limit(msg) THEN "sleep"
    ELSE "raise"

\* Mutant of FallbackVerdict: every failure moves on to the next fallback.
FallbackVerdictAlwaysContinue(msg) == "continue"

\* Lines 169-177: what the except clause of the fallback loop does with an error.
FallbackVerdict(msg) ==
    IF _is_rate_limit(msg) \/ _is_model_unavailable(msg) THEN "continue"
    ELSE "raise"

\* History: a model call is recorded.
Called(trace, model, ok, text, err) ==
    [trace EXCEPT !.calls = Append(@, [model |-> model, ok |-> ok,
                                       text |-> text, err |-> err])]

\* History: a sleep is recorded.
Slept(trace, kind, secs) ==
    [trace EXCEPT !.sleeps = Append(@, [kind |-> kind, secs |-> secs,
                                        after |-> Len(trace.calls)])]

\* The call of request p, with locals l, ends: it returns a text or raises an
\* error; cache is the cache it leaves behind.
Finish(p, l, cache, kind, text, err, trace) ==
    /\ pc' = [pc EXCEPT ![p] = "done"]
    /\ ret' = [ret EXCEPT ![p] = [kind |-> kind, text |-> text, err |-> err]]
    /\ tr' = [tr EXCEPT ![p] = trace]
    /\ last' = IF kind = "return"
               THEN DictSet(last, l.params,
                      [chain |-> l.chain, text |-> text,
                       model |-> IF trace.calls = << >> THEN << >>
                                 ELSE trace.calls[Len(trace.calls)].model,
                       ncalls |-> Len(trace.calls),
                       stored |-> IF l.ckey \in DOMAIN cache THEN cache[l.ckey][1] ELSE -1])
               ELSE DictPop(last, l.params)

\* Lines 116-125: the call starts, computes the key and looks it up.
Invoke(p, chain, params, max_retries) ==
    /\ pc[p] = "idle"
    /\ LET ckey == _cache_key(params)
           got == _cache_get(_llm_cache, ckey, cache_ttl, now)
           l == [NoLocals EXCEPT !.chain = chain, !.params = ParamSet(params),
                                 !.max_retries = max_retries, !.ckey = ckey]
           t == [NoTrace EXCEPT !.t0 = now, !.hit = (got[1] # None),
                                !.seen = IF ckey \in DOMAIN _llm_cache
                                         THEN _llm_cache[ckey] ELSE << >>,
                                !.prev = IF ParamSet(params) \in DOMAIN last
                                         THEN last[ParamSet(params)]
                                         ELSE NoSummary]
       IN /\ _llm_cache' = got[2]
          /\ loc' = [loc EXCEPT ![p] = l]
          /\ IF got[1] # None
             THEN Finish(p, l, got[2], "return", got[1], NoError, t)
             ELSE /\ pc' = [pc EXCEPT ![p] = PrimaryPc(0, max_retries)]
                  /\ tr' = [tr EXCEPT ![p] = t]
                  /\ ret' = [ret EXCEPT ![p] = NoReturn]
                  /\ UNCHANGED last
    /\ UNCHANGED <<pipeline_vars, history_vars, settings, horizon, now>>

\* Lines 129-132: chain.invoke(params) succeeds on the primary model.
PrimaryOk(p, text) ==
    /\ pc[p] = "primary"
    /\ LET cache == _cache_put(_llm_cache, loc[p].ckey, text, cache_ttl, now)
           t == Called(tr[p], PrimaryModel, TRUE, text, NoError)
       IN /\ _llm_cache' = cache
          /\ Finish(p, loc[p], cache, "return", text, NoError,
                    [t EXCEPT !.puts = @ + 1])
    /\ UNCHANGED <<pipeline_vars, history_vars, settings, horizon, now, loc>>

\* Lines 133-150: chain.invoke(params) raises on the primary model.
PrimaryFail(p, msg) ==
    /\ pc[p] = "primary"
    /\ LET e == Err(msg, Len(tr[p].calls) + 1)
           t == Called(tr[p], PrimaryModel, FALSE, None, e)
       IN /\ loc' = [loc EXCEPT ![p].last_error = e]
          /\ IF PrimaryVerdict(msg) = "break"
             THEN \* break
                  /\ pc' = [pc EXCEPT ![p] = FallbackPc(1)]
                  /\ tr' = [tr EXCEPT ![p] = t]
                  /\ UNCHANGED <<ret, last>>
             ELSE IF PrimaryVerdict(msg) = "sleep"
             THEN \* _time.sleep(wait) comes next
                  /\ pc' = [pc EXCEPT ![p] = "backoff"]
                  /\ tr' = [tr EXCEPT ![p] = t]
                  /\ UNCHANGED <<ret, last>>
             ELSE \* raise
                  Finish(p, loc[p], _llm_cache, "raise", None, e, t)
    /\ UNCHANGED <<pipeline_vars, history_vars, settings, horizon, now, _llm_cache>>

\* Lines 143-148: the back-off sleep, then the next iteration of the loop.
Backoff(p) ==
    /\ pc[p] = "backoff"
    /\ LET wait == BackoffWait(loc[p].attempt)
       IN /\ now + wait <= horizon
          /\ now' = now + wait
          /\ tr' = [tr EXCEPT ![p] = Slept(@, "backoff", wait)]
    /\ loc' = [loc EXCEPT ![p].attempt = @ + 1]
    /\ pc' = [pc EXCEPT ![p] = PrimaryPc(loc[p].attempt + 1, loc[p].max_retries)]
    /\ UNCHANGED <<pipeline_vars, history_vars, settings, horizon, _llm_cache, ret, last>>

\* Mutant of fb_model: the list is walked from its end.
fb_model_reversed(p) == Fallbacks[Len(Fallbacks) - loc[p].fb]

\* The fallback model the loop of line 154 stands at.
fb_model(p) == Fallbacks[loc[p].fb + 1]

\* Mutant of FallbackCacheKey: the fallback's name is made part of the key.
FallbackCacheKeyPerModel(p) == loc[p].ckey \o <<fb_model(p)>>

\* Line 164: the key the fallback's response is cached under.
FallbackCacheKey(p) == loc[p].ckey

\* Lines 155-166: the fallback chain succeeds.
FallbackOk(p, text) ==
    /\ pc[p] = "fallback"
    /\ LET cache == _cache_put(_llm_cache, FallbackCacheKey(p), text, cache_ttl, now)
           t == Called(tr[p], fb_model(p), TRUE, text, NoError)
       IN /\ _llm_cache' = cache
          /\ Finish(p, loc[p], cache, "return", text, NoError,
                    [t EXCEPT !.puts = @ + 1])
    /\ UNCHANGED <<pipeline_vars, history_vars, settings, horizon, now, loc>>

\* Lines 167-177: the fallback chain raises.
FallbackFail(p, msg) ==
    /\ pc[p] = "fallback"
    /\ LET e == Err(msg, Len(tr[p].calls) + 1)
           t == Called(tr[p], fb_model(p), FALSE, None, e)
       IN /\ loc' = [loc EXCEPT ![p].last_error = e]
          /\ IF FallbackVerdict(msg) = "continue"
             THEN \* _time.sleep(1) comes next
                  /\ pc' = [pc EXCEPT ![p] = "pause"]
                  /\ tr' = [tr EXCEPT ![p] = t]
                  /\ UNCHANGED <<ret, last>>
             ELSE \* raise
                  Finish(p, loc[p], _llm_cache, "raise", None, e, t)
    /\ UNCHANGED <<pipeline_vars, history_vars, settings, horizon, now, _llm_cache>>

\* Lines 174-175: the courtesy pause, then continue with the next fallback.
Pause(p) ==
    /\ pc[p] = "pause"
    /\ now + FallbackPause <= horizon
    /\ now' = now + FallbackPause
    /\ tr' = [tr EXCEPT ![p] = Slept(@, "pause", FallbackPause)]
    /\ loc' = [loc EXCEPT ![p].fb = @ + 1]
    /\ pc' = [pc EXCEPT ![p] = FallbackPc(loc[p].fb + 2)]
    /\ UNCHANGED <<pipeline_vars, history_vars, settings, horizon, _llm_cache, ret, last>>

\* Line 180: raise last_error
Exhausted(p) ==
    /\ pc[p] = "exhausted"
    /\ Finish(p, loc[p], _llm_cache, "raise", None,
              IF loc[p].last_error = NoError THEN TypeErrorNone ELSE loc[p].last_error,
              tr[p])
    /\ UNCHANGED <<pipeline_vars, history_vars, settings, horizon, now, _llm_cache, loc>>

\* Wall-clock time passes.
Tick ==
    /\ now < horizon
    /\ now' = now + 1
    /\ UNCHANGED <<pipeline_vars, history_vars, settings, horizon, _llm_cache, pc, loc, ret, tr, last>>

\* The caller has the result; the frame of the call is gone.
Return(p) ==
    /\ pc[p] = "done"
    /\ pc' = [pc EXCEPT ![p] = "idle"]
    /\ loc' = [loc EXCEPT ![p] = NoLocals]
    /\ ret' = [ret EXCEPT ![p] = [@ EXCEPT !.text = None, !.err = NoError]]
    /\ tr' = [tr EXCEPT ![p] = NoTrace]
    /\ UNCHANGED <<pipeline_vars, history_vars, settings, horizon, now, _llm_cache, last>>

RetryChoices == 0..DefaultMaxRetries

\* The steps of a call that is under way.
Step(p) ==
    \/ \E text \in Texts : PrimaryOk(p, text)
    \/ \E msg \in Messages : PrimaryFail(p, msg)
    \/ Backoff(p)
    \/ \E text \in Texts : FallbackOk(p, text)
    \/ \E msg \in Messages : FallbackFail(p, msg)
    \/ Pause(p)
    \/ Exhausted(p)
    \/ Return(p)

\* Spec: the first call of _invoke_with_retry in a fresh process, with any
\* retry budget, under any of the configurations.  The clock advances by the
\* sleeps of the call.
Next ==
    \/ /\ last = << >>
       /\ ret["r1"] = NoReturn
       /\ \E params \in ParamInputs, mr \in RetryChoices :
             Invoke("r1", "INTENT_PROMPT", params, mr)
    \/ Step("r1")

Spec == Init /\ [][Next]_vars

\* SpecCalls: call after call of _invoke_with_retry as the stages make them,
\* with the default retry budget, over the shared cache; time passes at any
\* moment.
NextCalls ==
    \/ \E chain \in Templates, params \in ParamInputs :
          Invoke("r1", chain, params, DefaultMaxRetries)
    \/ Step("r1")
    \/ Tick

InitCalls ==
    /\ PipelineInit
    /\ NoHistory
    /\ settings \in [cache_ttl_seconds : CacheTTLs,
                     fallback_models : { << <<"A">>, <<" ">> >> }]
    /\ horizon = MaxTimeCalls
    /\ now = 0
    /\ _llm_cache = << >>
    /\ pc = [p \in Procs |-> "idle"]
    /\ loc = [p \in Procs |-> NoLocals]
    /\ ret = [p \in Procs |-> NoReturn]
    /\ tr = [p \in Procs |-> NoTrace]
    /\ last = << >>

SpecCalls == InitCalls /\ [][NextCalls]_vars

\* ------------------------------------------------------------------------
\* Reading the history of a call
\* ------------------------------------------------------------------------
Running(p) == pc[p] # "idle"

Done(p) == pc[p] = "done"

Returned(p) == Done(p) /\ ret[p].kind = "return"

Raised(p) == Done(p) /\ ret[p].kind = "raise"

Calls(p) == tr[p].calls

NCalls(p) == Len(tr[p].calls)

\* The number of calls made to the primary model.
NPrimary(p) == Cardinality({i \in 1..NCalls(p) : Calls(p)[i].model = PrimaryModel})

IsBackoff(s) == s.kind = "backoff"

IsPause(s) == s.kind = "pause"

\* The sleeps that follow the i-th model call (before the next call).
SleepsAfter(p, i) == SelectSeq(tr[p].sleeps, LAMBDA s : s.after = i)

\* Classification of a failed call, as the spec names the classes.
DailyQuota(c) == ~c.ok /\ c.err.msg \cap RateMarkers # {} /\ c.err.msg \cap DailyMarkers # {}

TransientRate(c) == ~c.ok /\ c.err.msg \cap RateMarkers # {} /\ c.err.msg \cap DailyMarkers = {}

RateLimited(c) == ~c.ok /\ c.err.msg \cap RateMarkers # {}

Unavailable(c) == ~c.ok /\ c.err.msg \cap UnavailableMarkers # {}

\* ------------------------------------------------------------------------
\* C2  Fallback ordering.  The model calls of an invocation are calls to the
\* primary followed by calls to the fallback models in the configured order,
\* one call per list entry; only the last call can be a success, and then the
\* invocation ends at once returning that call's text.  With fallbacks
\* [A, B, C], A and B failing and C succeeding, the calls are A, B, C, the
\* result is C's text and nothing is invoked after C.
\* ------------------------------------------------------------------------
FallbackOrdering ==
    \A p \in Procs :
        LET c == Calls(p)
            k == NPrimary(p)
        IN /\ \A i \in 1..Len(c) :
                 /\ i <= k => c[i].model = PrimaryModel
                 /\ i > k => /\ i - k <= Len(Fallbacks)
                             /\ c[i].model = Fallbacks[i - k]
           /\ \A i \in 1..(Len(c) - 1) : ~c[i].ok
           /\ (c # << >> /\ c[Len(c)].ok) =>
                 /\ Returned(p)
                 /\ ret[p].text = c[Len(c)].text

FallbackOrderingWitness ==
    /\ Fallbacks = << <<"A">>, <<"B">>, <<"C">> >>
    /\ Returned("r1")
    /\ NPrimary("r1") = 3
    /\ NCalls("r1") = 6
    /\ Calls("r1")[4].model = <<"A">> /\ RateLimited(Calls("r1")[4])
    /\ Calls("r1")[5].model = <<"B">> /\ Unavailable(Calls("r1")[5])
    /\ Calls("r1")[6].model = <<"C">> /\ Calls("r1")[6].ok
    /\ ret["r1"].text = "t2"

\* ------------------------------------------------------------------------
\* C3  Daily-quota short-circuit.  A primary call that raises a daily-quota
\* error is the last call to the primary: no back-off sleep follows it and the
\* next model call, if any, is the first fallback.  When the first primary
\* call raises it, the primary is invoked exactly once and the invocation
\* sleeps no back-off at all, whatever max_retries is.
\* ------------------------------------------------------------------------
DailyQuotaShortCircuit ==
    \A p \in Procs : \A i \in 1..NCalls(p) :
        (Calls(p)[i].model = PrimaryModel /\ DailyQuota(Calls(p)[i])) =>
            /\ NPrimary(p) = i
            /\ SleepsAfter(p, i) = << >>
            /\ pc[p] \notin {"primary", "backoff"}
            /\ NCalls(p) > i => Calls(p)[i + 1].model = Fallbacks[1]
            /\ i = 1 => \A j \in 1..Len(tr[p].sleeps) : ~IsBackoff(tr[p].sleeps[j])

DailyQuotaShortCircuitWitness ==
    /\ loc["r1"].max_retries = 3
    /\ NCalls("r1") = 2
    /\ DailyQuota(Calls("r1")[1])
    /\ Calls("r1")[1].model = PrimaryModel
    /\ Calls("r1")[2].model = <<"A">>
    /\ tr["r1"].sleeps = << >>

\* ------------------------------------------------------------------------
\* C4  Exhaustion.  Whenever an invocation ends by raising, the error it
\* raises is the error of the last model call it made (for every max_retries,
\* 0 included, and every fallback list, the empty one included); it is never
\* an error that no model call raised.
\* ------------------------------------------------------------------------
RaisesLastError ==
    \A p \in Procs :
        Raised(p) =>
            /\ NCalls(p) >= 1
            /\ ~Calls(p)[NCalls(p)].ok
            /\ ret[p].err = Calls(p)[NCalls(p)].err

\* ------------------------------------------------------------------------
\* C5  Retry budget and back-off.  The primary is invoked at most max_retries
\* times; the k-th retry (the (k+1)-th primary call) is preceded by exactly
\* one sleep, the k-th back-off, which lasts 2^(k-1) seconds: 1, 2, 4.
\* ------------------------------------------------------------------------
BackoffSeconds == <<1, 2, 4, 8>>

RetryBudgetAndBackoff ==
    \A p \in Procs :
        Running(p) =>
            /\ NPrimary(p) <= loc[p].max_retries
            /\ \A k \in 1..(NPrimary(p) - 1) :
                  /\ TransientRate(Calls(p)[k])
                  /\ Len(SleepsAfter(p, k)) = 1
                  /\ IsBackoff(SleepsAfter(p, k)[1])
                  /\ SleepsAfter(p, k)[1].secs = BackoffSeconds[k]

RetryBudgetAndBackoffWitness ==
    /\ NPrimary("r1") = 3
    /\ loc["r1"].max_retries = 3
    /\ Len(tr["r1"].sleeps) >= 2
    /\ tr["r1"].sleeps[1].secs = 1
    /\ tr["r1"].sleeps[2].secs = 2
    /\ Calls("r1")[3].ok

\* ------------------------------------------------------------------------
\* C6  A primary call that fails with an error that is neither daily-quota
\* nor transient rate-limit (a model-unavailable error without rate marker
\* included) ends the invocation: that error is raised, the primary is not
\* retried, nothing sleeps after it, no fallback is invoked and nothing is
\* written to the cache.
\* ------------------------------------------------------------------------
PrimaryOtherErrorPropagates ==
    \A p \in Procs : \A i \in 1..NCalls(p) :
        (/\ Calls(p)[i].model = PrimaryModel
         /\ ~Calls(p)[i].ok
         /\ ~RateLimited(Calls(p)[i])) =>
            /\ NCalls(p) = i
            /\ Raised(p)
            /\ ret[p].err = Calls(p)[i].err
            /\ SleepsAfter(p, i) = << >>
            /\ tr[p].puts = 0
            /\ loc[p].ckey \notin DOMAIN _llm_cache

PrimaryOtherErrorPropagatesWitness ==
    /\ Raised("r1")
    /\ NCalls("r1") = 2
    /\ Unavailable(Calls("r1")[2])
    /\ ~RateLimited(Calls("r1")[2])
    /\ Calls("r1")[2].model = PrimaryModel
    /\ Len(Fallbacks) = 3
    /\ cache_ttl > 0

\* ------------------------------------------------------------------------
\* C7  In the fallback cascade a failure classified rate-limit or
\* model-unavailable is followed by one pause of 1 second and then by the
\* next fallback of the list (or by exhaustion); a failure of any other kind
\* is raised at once and no further fallback is invoked.
\* ------------------------------------------------------------------------
FallbackFailureHandling ==
    \A p \in Procs : \A i \in 1..NCalls(p) :
        (Calls(p)[i].model # PrimaryModel /\ ~Calls(p)[i].ok) =>
            IF RateLimited(Calls(p)[i]) \/ Unavailable(Calls(p)[i])
            THEN \/ NCalls(p) = i /\ pc[p] = "pause" /\ SleepsAfter(p, i) = << >>
                 \/ /\ Len(SleepsAfter(p, i)) = 1
                    /\ IsPause(SleepsAfter(p, i)[1])
                    /\ SleepsAfter(p, i)[1].secs = 1
                    /\ IF i - NPrimary(p) < Len(Fallbacks)
                       THEN \/ NCalls(p) = i /\ pc[p] = "fallback"
                            \/ /\ NCalls(p) > i
                               /\ Calls(p)[i + 1].model = Fallbacks[i - NPrimary(p) + 1]
                       ELSE NCalls(p) = i /\ (pc[p] = "exhausted" \/ Raised(p))
            ELSE /\ NCalls(p) = i
                 /\ Raised(p)
                 /\ ret[p].err = Calls(p)[i].err
                 /\ SleepsAfter(p, i) = << >>

FallbackFailureHandlingWitness ==
    /\ Len(Fallbacks) = 3
    /\ Raised("r1")
    /\ NPrimary("r1") = 1
    /\ NCalls("r1") = 3
    /\ Unavailable(Calls("r1")[2])
    /\ ~RateLimited(Calls("r1")[3])
    /\ ~Unavailable(Calls("r1")[3])
    /\ Len(tr["r1"].sleeps) = 1
    /\ tr["r1"].sleeps[1] = [kind |-> "pause", secs |-> 1, after |-> 2]

\* ------------------------------------------------------------------------
\* The pair of a call and the last call before it with the same params
\* ------------------------------------------------------------------------
\* The call of p was preceded by a call with the same template and the same
\* params mapping that returned a text, and p looked the key up no later than
\* TTL seconds after that text was stored in the cache.
RepeatsWithinTTL(p) ==
    /\ Done(p)
    /\ cache_ttl > 0
    /\ tr[p].prev # NoSummary
    /\ tr[p].prev.chain = loc[p].chain
    /\ tr[p].t0 - tr[p].prev.stored <= cache_ttl

\* ------------------------------------------------------------------------
\* C1  (as stated) Cache idempotence: for two calls with identical template
\* and canonicalized parameters, the first having returned and the second
\* starting within the TTL window, the model is invoked exactly once in
\* total, the second call makes no model call, sleeps no back-off, tries no
\* fallback and returns the first call's text.  Read in the claim's favour:
\* the first call is one that reached the model (it was no cache hit).
\* ------------------------------------------------------------------------
CacheIdempotenceExactlyOnce ==
    \A p \in Procs :
        (RepeatsWithinTTL(p) /\ tr[p].prev.ncalls >= 1) =>
            /\ tr[p].prev.ncalls + NCalls(p) = 1
            /\ NCalls(p) = 0
            /\ tr[p].sleeps = << >>
            /\ Returned(p)
            /\ ret[p].text = tr[p].prev.text

\* ------------------------------------------------------------------------
\* C1  (amended) Cache idempotence: under the same conditions the second
\* call makes no model call, sleeps no back-off, tries no fallback, writes
\* nothing to the cache and returns the first call's text; every model call
\* of the two is one of the first call (exactly one when the first call
\* missed the cache and its first attempt succeeded).
\* ------------------------------------------------------------------------
CacheIdempotence ==
    \A p \in Procs :
        RepeatsWithinTTL(p) =>
            /\ tr[p].hit
            /\ NCalls(p) = 0
            /\ tr[p].sleeps = << >>
            /\ tr[p].puts = 0
            /\ Returned(p)
            /\ ret[p].text = tr[p].prev.text

CacheIdempotenceWitness ==
    /\ RepeatsWithinTTL("r1")
    /\ tr["r1"].prev.ncalls = 1
    /\ tr["r1"].t0 = tr["r1"].prev.stored + cache_ttl
    /\ NCalls("r1") = 0
    /\ ret["r1"].text = "t2"

\* ------------------------------------------------------------------------
\* C8  A fallback's response is cached under the key of the original call,
\* so that the next call with the same template and params within the TTL
\* makes no model call at all and returns that response.
\* ------------------------------------------------------------------------
FallbackResultCached ==
    \A p \in Procs :
        /\ (/\ Returned(p)
            /\ cache_ttl > 0
            /\ NCalls(p) > 0
            /\ Calls(p)[NCalls(p)].model # PrimaryModel) =>
               /\ loc[p].ckey \in DOMAIN _llm_cache
               /\ _llm_cache[loc[p].ckey][2] = ret[p].text
        /\ (RepeatsWithinTTL(p) /\ tr[p].prev.model \notin {<< >>, PrimaryModel}) =>
               /\ NCalls(p) = 0
               /\ Returned(p)
               /\ ret[p].text = tr[p].prev.text

FallbackResultCachedWitness ==
    /\ RepeatsWithinTTL("r1")
    /\ tr["r1"].prev.model = <<"A">>
    /\ tr["r1"].t0 > tr["r1"].prev.stored
    /\ tr["r1"].hit
    /\ NCalls("r1") = 0

\* ------------------------------------------------------------------------
\* C9  TTL expiry.  With TTL > 0, a lookup that finds an entry stamped T
\* returns its value when it happens before T + TTL and reports it absent
\* when it happens after T + TTL; a hit leaves the entry as it was (its
\* lifetime is not extended).
\* ------------------------------------------------------------------------
TTLExpiry ==
    \A p \in Procs :
        (Running(p) /\ cache_ttl > 0 /\ tr[p].seen # << >>) =>
            /\ tr[p].t0 < tr[p].seen[1] + cache_ttl =>
                  /\ tr[p].hit
                  /\ Returned(p)
                  /\ ret[p].text = tr[p].seen[2]
            /\ tr[p].t0 > tr[p].seen[1] + cache_ttl => ~tr[p].hit
            /\ tr[p].hit => /\ loc[p].ckey \in DOMAIN _llm_cache
                            /\ _llm_cache[loc[p].ckey] = tr[p].seen

\* An entry that an earlier call hit is looked up after T + TTL and is absent.
TTLExpiryWitness ==
    /\ Running("r1")
    /\ cache_ttl > 0
    /\ tr["r1"].seen # << >>
    /\ tr["r1"].t0 > tr["r1"].seen[1] + cache_ttl
    /\ ~tr["r1"].hit
    /\ tr["r1"].prev.ncalls = 0
    /\ tr["r1"].prev.stored = tr["r1"].seen[1]

TemplateInKey ==
    \A p \in Procs :
        (Done(p) /\ tr[p].hit) =>
            /\ tr[p].prev # NoSummary
            /\ tr[p].prev.chain = loc[p].chain

\* ------------------------------------------------------------------------
\* Response texts and the response parser
\* ------------------------------------------------------------------------
\* A response text is a sequence of tokens: a code fence, a language tag, a
\* brace, a JSON member ("key": value), a JSON array, a newline, a Cypher
\* keyword or a word of prose.
\* Three backquotes.
Fence == "FENCE"

NL == "\n"

\* "key": value, as <<key, value>>; the values are named by their shape.
MemberOf ==
    [ reasoning       |-> <<"reasoning", "str">>,
      products        |-> <<"relevant_products", "list[p1]">>,
      columns         |-> <<"relevant_columns", "dict{p1:list[c1]}">>,
      columns_as_list |-> <<"relevant_columns", "list[c1]">>,
      approved_false  |-> <<"approved", "false">> ]

MemberTokens == DOMAIN MemberOf

\* A Python value that json.loads returns: a dict (a function from its keys)
\* or a list.
PyDict(f) == [type |-> "dict", value |-> f]

PyList == [type |-> "list", value |-> << >>]

EmptyDict == PyDict(<< >>)

IsWhitespace(tok) == tok = NL

Drop(text, n) == SubSeq(text, n + 1, Len(text))

\* The positions of text that hold no whitespace.
Inked(text) == {i \in 1..Len(text) : ~IsWhitespace(text[i])}

Min(S) == CHOOSE i \in S : \A j \in S : i <= j

Max(S) == CHOOSE i \in S : \A j \in S : i >= j

\* str.lstrip()
lstrip_text(text) ==
    IF Inked(text) = {} THEN << >> ELSE SubSeq(text, Min(Inked(text)), Len(text))

\* str.rstrip()
rstrip_text(text) ==
    IF Inked(text) = {} THEN << >> ELSE SubSeq(text, 1, Max(Inked(text)))

\* str.strip()
strip_text(text) == rstrip_text(lstrip_text(text))

\* The dict of the members between the braces, a later member overwriting
\* an earlier one with the same key.
members_dict(toks) ==
    [k \in {MemberOf[toks[i]][1] : i \in DOMAIN toks} |->
        MemberOf[toks[Max({i \in DOMAIN toks : MemberOf[toks[i]][1] = k})]][2]]

JSONDecodeError == [ok |-> FALSE, value |-> EmptyDict]

Decoded(value) == [ok |-> TRUE, value |-> value]

\* The value of a text without its whitespace: an array, or an object whose
\* braces hold members only.
decode_tokens(toks) ==
    IF toks = <<"[]">> THEN Decoded(PyList)
    ELSE IF /\ Len(toks) >= 2
            /\ toks[1] = "{"
            /\ toks[Len(toks)] = "}"
            /\ \A i \in 2..(Len(toks) - 1) : toks[i] \in MemberTokens
         THEN Decoded(PyDict(members_dict(SubSeq(toks, 2, Len(toks) - 1))))
         ELSE JSONDecodeError

\* json.loads(s): the decoded value, or JSONDecodeError.  Whitespace between
\* tokens does not count.
json_loads(s) == decode_tokens(SelectSeq(s, LAMBDA tok : ~IsWhitespace(tok)))

\* The positions of tok in text.
Positions(text, tok) == {i \in 1..Len(text) : text[i] = tok}

NoMatch == [matched |-> FALSE, group |-> << >>]

Match(group) == [matched |-> TRUE, group |-> group]

\* (?:<tags>)?  after the opening fence
skip_tag(rest, tags) == IF rest # << >> /\ Head(rest) \in tags THEN Tail(rest) ELSE rest

\* (.*?) up to the closing fence
until_fence(body) == SubSeq(body, 1, Min(Positions(body, Fence)) - 1)

\* \n? ahead of the closing fence
chomp(inner) ==
    IF inner # << >> /\ inner[Len(inner)] = NL THEN SubSeq(inner, 1, Len(inner) - 1) ELSE inner

\* re.search(FENCE (?:<tags>)? \s* \n? (.*?) \n? FENCE, text, re.DOTALL):
\* group(1) of the first fenced block, or no match.
fenced_group(text, tags) ==
    IF Cardinality(Positions(text, Fence)) < 2 THEN NoMatch
    ELSE Match(chomp(until_fence(lstrip_text(
                 skip_tag(Drop(text, Min(Positions(text, Fence))), tags)))))

\* re.search(r"\{.*\}", text, re.DOTALL): from the first "{" to the last "}".
brace_span(text) ==
    IF /\ Positions(text, "{") # {}
       /\ Positions(text, "}") # {}
       /\ Min(Positions(text, "{")) < Max(Positions(text, "}"))
    THEN Match(SubSeq(text, Min(Positions(text, "{")), Max(Positions(text, "}"))))
    ELSE NoMatch

\* if match: text = match.group(1)
group_or(m, text) == IF m.matched THEN m.group ELSE text

\* The text the parser decodes: the first fenced block if there is one.
SelectedText(text) == group_or(fenced_group(text, {"json"}), text)

\* if match: try json.loads(match.group())
decode_span(m) == IF m.matched THEN json_loads(m.group) ELSE JSONDecodeError

\* return {"raw": text, "parse_error": True}
ParseErrorWithoutFlag(text) == PyDict(DictSet(<< >>, "raw", text))

ParseError(text) == PyDict(DictSet(DictSet(<< >>, "raw", text), "parse_error", TRUE))

\* The first of the two decodings that succeeds, else the parse error.
first_decoded(span, whole, text) ==
    IF span.ok THEN span.value ELSE IF whole.ok THEN whole.value ELSE ParseError(text)

extract_selected(text) ==
    first_decoded(decode_span(brace_span(text)), json_loads(strip_text(text)), text)

_extract_json(text) == extract_selected(SelectedText(text))

\* str.find(stop) for the stop markers: the first position of a blank line
\* (two newlines) or of the word, 0 if there is none (Python's -1).
FindBlankLine(query) ==
    IF {i \in 1..(Len(query) - 1) : query[i] = NL /\ query[i + 1] = NL} = {} THEN 0
    ELSE Min({i \in 1..(Len(query) - 1) : query[i] = NL /\ query[i + 1] = NL})

FindWord(query, word) ==
    IF Positions(query, word) = {} THEN 0 ELSE Min(Positions(query, word))

\* if idx > 0: query = query[:idx].strip()   (idx counts from 0)
CutAt(query, at) == IF at > 1 THEN strip_text(SubSeq(query, 1, at - 1)) ELSE query

CutAtNote(query) == CutAt(query, FindWord(query, "Note:"))

\* The loop over the stop markers, one after the other.
CutTrailingProse(query) == CutAtNote(CutAt(query, FindBlankLine(query)))

\* re.search(r"(<keyword>\s+.+)", text, re.DOTALL | re.IGNORECASE): from the
\* first keyword that something follows to the end of the text.
keyword_group(text, keyword) ==
    IF {i \in Positions(text, keyword) : i < Len(text)} = {} THEN NoMatch
    ELSE Match(Drop(text, Min(Positions(text, keyword)) - 1))

\* The first of the three searches that matches, else the trimmed text.
first_matched(fenced, match, select, text) ==
    IF fenced.matched THEN strip_text(fenced.group)
    ELSE IF match.matched THEN CutTrailingProse(strip_text(match.group))
    ELSE IF select.matched THEN CutTrailingProse(strip_text(select.group))
    ELSE strip_text(text)

_extract_sql(text) ==
    first_matched(fenced_group(text, {"sql", "cypher"}), keyword_group(text, "MATCH"),
                  keyword_group(text, "SELECT"), text)

\* ------------------------------------------------------------------------
\* The five stage functions
\* ------------------------------------------------------------------------
\* How the stage's _invoke_with_retry call ends: it returns a text or raises.
Returns(text) == [kind |-> "return", text |-> text, err |-> NoError]

Raises(err) == [kind |-> "raise", text |-> << >>, err |-> err]

\* value.get(...) on a value that is no dict.
AttributeErrorGet == Err({"'list' object has no attribute 'get'"}, 0)

\* result_data[0].keys() on a row that is no mapping.
AttributeErrorKeys == Err({"object has no attribute 'keys'"}, 0)

\* AgentResult: the message, the elapsed time and the timestamp are left out.
AgentResult(agent_name, status, data) ==
    [agent_name |-> agent_name, status |-> status, data |-> data]

NoAgentResult == AgentResult("", "", << >>)

\* What a call of a stage function does: it returns an AgentResult or an
\* exception leaves it.
Returning(agent_result) == [raised |-> FALSE, exc |-> NoError, result |-> agent_result]

Propagating(exc) == [raised |-> TRUE, exc |-> exc, result |-> NoAgentResult]

Failed(err) == [ok |-> FALSE, err |-> err, value |-> << >>]

\* The first .get on the parsed value.
first_get(parsed) ==
    IF parsed.type # "dict" THEN Failed(AttributeErrorGet)
    ELSE [ok |-> TRUE, err |-> NoError, value |-> parsed.value]

\* The body of the try block up to the parsed value: the invocation, then
\* _extract_json, then the first .get on the parsed value.
Parsed(outcome) ==
    IF outcome.kind = "raise" THEN Failed(outcome.err)
    ELSE first_get(_extract_json(outcome.text))

\* except Exception as e: return AgentResult(status="error", data={"error": str(e)})
StageErrorReraised(agent_name, e, defaults) == Propagating(e)

StageError(agent_name, e, defaults) ==
    Returning(AgentResult(agent_name, "error", DictSet(defaults, "error", e.msg)))

\* The end of the try block: the result with the parsed payload, or the
\* except clause.
stage_result(agent_name, got, defaults) ==
    IF got.ok THEN Returning(AgentResult(agent_name, "success", got.value))
    ELSE StageError(agent_name, got.err, defaults)

intent_result(got, text) ==
    IF got.ok
    THEN Returning(AgentResult("intent_agent", "success",
             DictSet(DictSet(<< >>, "intent", got.value), "raw_response", text)))
    ELSE StageError("intent_agent", got.err, << >>)

run_intent_agent(outcome) == intent_result(Parsed(outcome), outcome.text)

run_discovery_agent(outcome) == stage_result("discovery_agent", Parsed(outcome), << >>)

run_query_agent(outcome) ==
    IF outcome.kind = "return"
    THEN Returning(AgentResult("query_agent", "success",
             DictSet(DictSet(<< >>, "sql", _extract_sql(outcome.text)),
                     "raw_response", outcome.text)))
    ELSE StageError("query_agent", outcome.err, << >>)

\* A row of a result set is a mapping; IsMapping tells the elements of a list
\* that are rows from those that are not.
IsMapping(row) == row = "row"

\* Lines 441-442, ahead of the try block:
\* columns = list(result_data[0].keys()) if result_data else []
trust_columns(result_data) ==
    IF result_data # << >> /\ ~IsMapping(result_data[1])
    THEN [ok |-> FALSE, err |-> AttributeErrorKeys]
    ELSE [ok |-> TRUE, err |-> NoError]

\* Mutant of TrustDefaults: a failed validation rejects.
TrustDefaultsRejecting == DictSet(DictSet(<< >>, "trust_score", "0"), "approved", "false")

\* Line 467: data={"trust_score": 50, "approved": True, "error": str(e)}
TrustDefaults == DictSet(DictSet(<< >>, "trust_score", "50"), "approved", "true")

trust_result(cols, outcome) ==
    IF ~cols.ok THEN Propagating(cols.err)
    ELSE stage_result("trust_judge", Parsed(outcome), TrustDefaults)

run_trust_agent(result_data, outcome) == trust_result(trust_columns(result_data), outcome)

\* pd.DataFrame(result_data) accepts a list of rows and a list of scalars.
run_analyst_agent(result_data, outcome) ==
    stage_result("analyst_agent", Parsed(outcome), << >>)

\* ------------------------------------------------------------------------
\* SpecStage: the stage functions, called one at a time with any arguments
\* ------------------------------------------------------------------------
Stages == <<"intent", "discovery", "query_generation", "validation", "analysis">>

\* The texts a model answers with.
JsonResponses ==
    { <<"{", "products", "columns", "}">>,
      <<"{", "products", "columns_as_list", "}">>,
      <<"{", "approved_false", "}">>,
      <<"{", "}">>,
      <<"x", Fence, "json", NL, "{", "reasoning", "}", NL, Fence>>,
      <<"x", Fence, NL, "{", "x", NL, Fence, "x">>,
      <<"{", "reasoning", "}", "x", "{", "}">>,
      <<"x">>,
      <<"[]">> }

CypherResponses ==
    { <<"MATCH", "x", "RETURN", "x">>,
      <<Fence, "cypher", NL, "MATCH", "x", "DELETE", "x", NL, Fence>>,
      <<"x", "MATCH", "x", "RETURN", "x", NL, NL, "Note:", "x">>,
      <<NL>> }

Responses == JsonResponses \cup CypherResponses

\* The errors _invoke_with_retry raises.
InvokeErrors == {Err({"429"}, 1), TypeErrorNone}

Outcomes == {Returns(text) : text \in Responses} \cup {Raises(e) : e \in InvokeErrors}

\* The lists a stage can be given as result_data: no row, rows, and a list
\* whose elements are no mappings.
ResultDatas == { << >>, <<"row">>, <<"row", "row", "row", "row">>, <<"scalar">> }

\* The stage function of each stage.
StageFn(stage, result_data, outcome) ==
    CASE stage = "intent" -> run_intent_agent(outcome)
      [] stage = "discovery" -> run_discovery_agent(outcome)
      [] stage = "query_generation" -> run_query_agent(outcome)
      [] stage = "validation" -> run_trust_agent(result_data, outcome)
      [] stage = "analysis" -> run_analyst_agent(result_data, outcome)

TakesResultData(stage) == stage \in {"validation", "analysis"}

\* A stage function is called and returns, or an exception leaves it.
CallStage(stage, result_data, outcome) ==
    /\ stage_in = NoCall
    /\ TakesResultData(stage) \/ result_data = << >>
    /\ stage_in' = [stage |-> stage, result_data |-> result_data, outcome |-> outcome]
    /\ stage_out' = StageFn(stage, result_data, outcome)
    /\ UNCHANGED <<invoker_vars, history_vars, kg, ppc, state, result, log>>

\* The caller is done with the result.
StageDone ==
    /\ stage_in # NoCall
    /\ stage_in' = NoCall
    /\ stage_out' = NoOutcome
    /\ UNCHANGED <<invoker_vars, history_vars, kg, ppc, state, result, log>>

InitStage ==
    /\ PipelineInit
    /\ NoHistory
    /\ settings = [cache_ttl_seconds |-> PosTTL, fallback_models |-> << << >> >>]
    /\ horizon = 0
    /\ now = 0
    /\ _llm_cache = << >>
    /\ pc = [p \in Procs |-> "idle"]
    /\ loc = [p \in Procs |-> NoLocals]
    /\ ret = [p \in Procs |-> NoReturn]
    /\ tr = [p \in Procs |-> NoTrace]
    /\ last = << >>

NextStage ==
    \/ \E i \in DOMAIN Stages, result_data \in ResultDatas, outcome \in Outcomes :
          CallStage(Stages[i], result_data, outcome)
    \/ StageDone

SpecStage == InitStage /\ [][NextStage]_vars

\* ------------------------------------------------------------------------
\* Reading a stage call
\* ------------------------------------------------------------------------
StageCalled == stage_in # NoCall

\* The payload of the stage's result.
Payload == stage_out.result.data

\* The parsed response inside the payload: the intent stage nests it.
ParsedPayload ==
    IF stage_in.stage = "intent" /\ "intent" \in DOMAIN Payload
    THEN Payload["intent"] ELSE Payload

\* ------------------------------------------------------------------------
\* C12  Stage failure containment.  No exception leaves a stage function,
\* whatever its arguments, and when the stage's invocation fails the function
\* returns a result with status error whose payload holds the error text.
\* ------------------------------------------------------------------------
StageFailureContainment ==
    StageCalled =>
        /\ ~stage_out.raised
        /\ stage_in.outcome.kind = "raise" =>
              /\ stage_out.result.status = "error"
              /\ "error" \in DOMAIN Payload
              /\ Payload["error"] = stage_in.outcome.err.msg

\* The response holds a JSON object the parser finds.
holds_mapping(span, whole) == span.ok \/ (whole.ok /\ whole.value.type = "dict")

selected_holds_mapping(text) ==
    holds_mapping(decode_span(brace_span(text)), json_loads(strip_text(text)))

DecodesToMapping(text) == selected_holds_mapping(SelectedText(text))

ParsesJson(stage) == stage \in {"intent", "discovery", "validation", "analysis"}

RowsAreMappings(result_data) == \A i \in DOMAIN result_data : IsMapping(result_data[i])

\* ------------------------------------------------------------------------
\* C13  Parse degradation.  When the response of a stage's model cannot be
\* parsed into a structured payload, the stage function does not throw and
\* reports no error: its result's payload holds the raw text (the response,
\* or the fenced part of it that the parser selected) and parse_error = true.
\* ------------------------------------------------------------------------
ParseDegradation ==
    ( /\ StageCalled
      /\ ParsesJson(stage_in.stage)
      /\ RowsAreMappings(stage_in.result_data)
      /\ stage_in.outcome.kind = "return"
      /\ ~DecodesToMapping(stage_in.outcome.text) ) =>
        /\ ~stage_out.raised
        /\ stage_out.result.status # "error"
        /\ "raw" \in DOMAIN ParsedPayload
        /\ ParsedPayload["raw"] \in {stage_in.outcome.text, SelectedText(stage_in.outcome.text)}
        /\ "parse_error" \in DOMAIN ParsedPayload
        /\ ParsedPayload["parse_error"] = TRUE

\* ------------------------------------------------------------------------
\* The pipeline: ADOSSystem.query around the orchestrator's process_query
\* (spec 4.5: Start -> Intent -> Discovery -> QueryGeneration -> [execute
\* the generated query against the store] -> Validation -> Analysis -> Done)
\* ------------------------------------------------------------------------
\* The texts the model answers with at each stage of a run.
IntentResponses == { <<"{", "reasoning", "}">>, <<"x">> }

DiscoveryResponses ==
    { <<"{", "products", "columns", "}">>,
      <<"{", "products", "columns_as_list", "}">>,
      <<"x", Fence, NL, "{", "x", NL, Fence, "x">>,
      <<"x">>,
      <<"[]">> }

QueryResponses == CypherResponses

TrustResponses == { <<"{", "approved_false", "}">>, <<"x">> }

AnalysisResponses == { <<"{", "reasoning", "}">>, <<"[]">> }

StageOutcomes(texts) == {Returns(text) : text \in texts} \cup {Raises(Err({"429"}, 1))}

\* An entry of the trace: the stage's name, the status and the payload of its
\* result, and the failure of the store that executed the stage's query.
StageResult(stage, r) ==
    [stage |-> stage, status |-> r.status, data |-> r.data, execution_error |-> NoError]

\* What a stage hands to the stages after it: its payload when it succeeded
\* and parsed its response, the empty payload otherwise.
DegradedInput(status, payload) ==
    IF status = "success" /\ "parse_error" \notin DOMAIN payload THEN payload ELSE << >>

\* dict.get(key, default)
Get(dict, key, default) == IF key \in DOMAIN dict THEN dict[key] ELSE default

NoInvocation == [kind |-> "none", text |-> << >>, err |-> NoError]

\* What the run did, in order: a stage was attempted on a payload and a
\* result set, the store executed a text, a collaborator was called.
Event(op, name, payload, outcome, text, rows) ==
    [op |-> op, name |-> name, payload |-> payload, outcome |-> outcome,
     text |-> text, rows |-> rows]

\* An exception leaves ADOSSystem.query.
QueryRaises(exc) ==
    /\ ppc' = "raised"
    /\ result' = [raised |-> TRUE, exc |-> exc, value |-> << >>]

\* The roles a query is made under; guest is in no policy's allowed_roles.
Roles == {"analyst", "manager", "guest"}

\* self.data_products of the initialized system: the columns of each product.
DataProducts == [customers |-> {"customer_id", "segment"}, products |-> {"category"}]

ProductNames == <<"customers", "products">>

\* A column name that one of PII_PATTERNS matches.
IsPii(col) == col = "customer_id"

detect_pii_columns(columns) == {col \in columns : IsPii(col)}

\* AccessPolicy.allowed_roles, the default.
DefaultAllowedRoles == {"analyst", "manager", "data_engineer"}

\* The policy initialize() registers for a product.
register_access_policy(columns) ==
    [allowed_roles |-> DefaultAllowedRoles,
     restricted_columns |-> detect_pii_columns(columns)]

AccessAnswer(allowed) == DictSet(<< >>, "allowed", allowed)

\* FederatedGovernance.check_access, for a product that has a policy (on an
\* initialized system every product has one, system.py:94-97).
check_access(policy, user_role, columns) ==
    IF user_role \notin policy.allowed_roles THEN AccessAnswer("false")
    ELSE IF /\ columns \cap policy.restricted_columns # {}
            /\ user_role \notin {"manager", "data_engineer"}
         THEN AccessAnswer("false")
         ELSE AccessAnswer("true")

product_access(name, columns, user_role) ==
    Event("check_access", name, check_access(register_access_policy(columns), user_role, columns),
          NoInvocation, <<user_role>>, << >>)

\* Lines 133-134: the access of the role to each data product is checked.
access_checked(user_role) ==
    [i \in DOMAIN ProductNames |->
        product_access(ProductNames[i], DataProducts[ProductNames[i]], user_role)]

PermissionError == Err({"access denied"}, 0)

\* Mutant of AccessVerdict: a denied access ends the query.
AccessVerdictEnforced(access) == IF access["allowed"] = "false" THEN "raise" ELSE "proceed"

\* Lines 135-136: if not access["allowed"]: logger.warning(...)
AccessVerdict(access) == "proceed"

\* Lines 127-141: the system is initialized; the access of the role to each
\* data product is checked; the semantic enrichment changes nothing of the
\* run.
StartQuery(user_role) ==
    /\ ppc = "idle"
    /\ result = NoResult
    /\ log' = access_checked(user_role)
    /\ state' = NoState
    /\ IF \E i \in DOMAIN log' : AccessVerdict(log'[i].payload) = "raise"
       THEN QueryRaises(PermissionError)
       ELSE ppc' = "intent" /\ UNCHANGED result
    /\ UNCHANGED <<invoker_vars, history_vars, stage_in, stage_out, kg>>

\* What the state keeps of a stage's payload.
Kept(stage, data) ==
    IF stage = "intent" THEN Get(data, "intent", << >>)
    ELSE IF stage = "query_generation" THEN Get(data, "sql", << >>)
    ELSE data

\* The stage function has returned r, or an exception has left it.
StageEnds(stage, field, next, r) ==
    IF r.raised
    THEN QueryRaises(r.exc) /\ UNCHANGED state
    ELSE /\ ppc' = next
         /\ state' = [state EXCEPT ![field] = Kept(stage, r.result.data),
                                   !.steps = Append(@, StageResult(stage, r.result))]
         /\ UNCHANGED result

\* One stage of the run: the stage function is called with what the state
\* holds; its result is appended to the trace and its payload kept in field.
RunStage(stage, field, next, input, outcome, r) ==
    /\ ppc = stage
    /\ log' = Append(log, Event("stage", stage, input, outcome, state.sql, state.result_data))
    /\ StageEnds(stage, field, next, r)
    /\ UNCHANGED <<invoker_vars, history_vars, stage_in, stage_out, kg>>

IntentStage(outcome) ==
    RunStage("intent", "intent", "discovery", << >>, outcome, run_intent_agent(outcome))

DiscoveryStage(outcome) ==
    RunStage("discovery", "discovery", "query_generation",
             DegradedInput(state.steps[1].status, state.intent), outcome,
             run_discovery_agent(outcome))

QueryGenerationStage(outcome) ==
    RunStage("query_generation", "sql", "execute",
             DegradedInput(state.steps[2].status, state.discovery), outcome,
             run_query_agent(outcome))

\* session.run fails: the store is unreachable or rejects the statement.
StoreError == Err({"store execution failed"}, 0)

\* What knowledge_graph.query_cypher(cypher) does.  _FallbackKG returns an
\* empty list; the Neo4j graph returns the rows or raises, and it raises on
\* an empty statement.
query_cypher(graph, cypher) ==
    IF graph = "fallback" THEN { [raised |-> FALSE, rows |-> << >>] }
    ELSE { [raised |-> TRUE, rows |-> << >>] } \cup
         IF cypher = << >> THEN {}
         ELSE { [raised |-> FALSE, rows |-> rows] : rows \in {<< >>, <<"row", "row", "row", "row">>} }

\* The generated query is executed against the store; a failure is recorded
\* on the trace entry of the stage that generated the query and the stages
\* after it get an empty result set.
ExecuteQuery(out) ==
    /\ ppc = "execute"
    /\ out \in query_cypher(kg, state.sql)
    /\ ppc' = "validation"
    /\ log' = Append(log, Event("query_cypher", IF out.raised THEN "raised" ELSE "returned",
                                << >>, NoInvocation, state.sql, out.rows))
    /\ state' = [state EXCEPT
                   !.result_data = IF out.raised THEN << >> ELSE out.rows,
                   !.steps[3].execution_error = IF out.raised THEN StoreError ELSE NoError]
    /\ UNCHANGED <<invoker_vars, history_vars, stage_in, stage_out, kg, result>>

ValidationStage(outcome) ==
    RunStage("validation", "trust", "analysis", << >>, outcome,
             run_trust_agent(state.result_data, outcome))

AnalysisStage(outcome) ==
    RunStage("analysis", "analysis", "assembled", << >>, outcome,
             run_analyst_agent(state.result_data, outcome))

\* The result mapping process_query returns.
PipelineResult ==
    [status |-> IF state.sql # << >> THEN "success" ELSE "error",
     intent |-> state.intent, discovery |-> state.discovery, sql |-> state.sql,
     trust |-> state.trust, analysis |-> state.analysis,
     result_data |-> state.result_data, steps |-> state.steps]

\* FederatedGovernance.validate_query: fail on an SQL mutation keyword
\* anywhere, else on a Cypher mutation keyword that no RETURN precedes.
DangerousSql == {"DELETE"}

DangerousCypher == {"DELETE", "CREATE"}

validate_query(query) ==
    IF \/ \E i \in DOMAIN query : query[i] \in DangerousSql
       \/ \E d \in DangerousCypher :
             /\ Positions(query, d) # {}
             /\ Positions(SubSeq(query, 1, Min(Positions(query, d)) - 1), "RETURN") = {}
    THEN "fail" ELSE "pass"

\* The JSON values the discovery payload can hold under relevant_products
\* and relevant_columns: the elements of a list, the values of a dict.
IsDictShape(v) == v \in {"dict{}", "dict{p1:list[c1]}"}

ElementsOf(v) ==
    CASE v = "list[p1]" -> <<"p1">>
      [] v = "list[c1]" -> <<"c1">>
      [] OTHER -> << >>

ValuesOf(v) == IF v = "dict{p1:list[c1]}" THEN <<"list[c1]">> ELSE << >>

\* relevant_columns.values() on a value that is no dict.
AttributeErrorValues == Err({"'list' object has no attribute 'values'"}, 0)

\* Lines 147-152: the generated query, if there is one, is validated and the
\* status of the check put into the result.
governance_checked(res) ==
    IF res.sql # << >>
    THEN DictSet(res, "governance_query_check", validate_query(res.sql))
    ELSE res

validate_query_called(cypher) ==
    IF cypher # << >>
    THEN <<Event("validate_query", validate_query(cypher), << >>, NoInvocation, cypher, << >>)>>
    ELSE << >>

\* Lines 159-160: catalog.record_usage for each product of the discovery.
usage_recorded(products, columns_used) ==
    [i \in DOMAIN products |->
        Event("record_usage", products[i], << >>, NoInvocation, << >>, columns_used)]

\* Lines 155-167: the usage of the discovered products is recorded, the
\* summaries are added and the result is returned.
record_and_return(checked, products_used, relevant_columns) ==
    IF ~IsDictShape(relevant_columns)
    THEN /\ QueryRaises(AttributeErrorValues)
         /\ log' = log \o validate_query_called(checked.sql)
    ELSE /\ ppc' = "done"
         /\ log' = log \o validate_query_called(checked.sql)
                       \o usage_recorded(ElementsOf(products_used), ValuesOf(relevant_columns))
         /\ result' = [raised |-> FALSE, exc |-> NoError,
                       value |-> DictSet(DictSet(DictSet(checked,
                                   "semantic_enrichment", "enrichment"),
                                   "quality_scores", "summary"),
                                   "governance_status", "summary")]

\* result.get("discovery", {}).get(key, default)
discovery_get(res, key, default) == Get(Get(res, "discovery", << >>), key, default)

after_process_query(res) ==
    record_and_return(governance_checked(res),
                      discovery_get(res, "relevant_products", "list[]"),
                      discovery_get(res, "relevant_columns", "dict{}"))

\* Lines 144-167 of ADOSSystem.query: process_query returns the result; the
\* generated query is validated by governance; the usage of the discovered
\* products is recorded; the summaries are added and the result returned.
FinishQuery ==
    /\ ppc = "assembled"
    /\ after_process_query(PipelineResult)
    /\ UNCHANGED <<invoker_vars, history_vars, stage_in, stage_out, kg, state>>

\* The caller has the result, or the exception.
QueryDone ==
    /\ ppc \in {"done", "raised"}
    /\ ppc' = "idle"
    /\ state' = NoState
    /\ result' = NoResult
    /\ log' = << >>
    /\ UNCHANGED <<invoker_vars, history_vars, stage_in, stage_out, kg>>

\* SpecPipeline: query after query on an initialized system whose knowledge
\* graph is the Neo4j graph or the fallback.
InitPipeline ==
    /\ PipelineIdle
    /\ NoHistory
    /\ kg \in {"neo4j", "fallback"}
    /\ settings = [cache_ttl_seconds |-> PosTTL, fallback_models |-> << << >> >>]
    /\ horizon = 0
    /\ now = 0
    /\ _llm_cache = << >>
    /\ pc = [p \in Procs |-> "idle"]
    /\ loc = [p \in Procs |-> NoLocals]
    /\ ret = [p \in Procs |-> NoReturn]
    /\ tr = [p \in Procs |-> NoTrace]
    /\ last = << >>

NextPipeline ==
    \/ \E user_role \in Roles : StartQuery(user_role)
    \/ \E outcome \in StageOutcomes(IntentResponses) : IntentStage(outcome)
    \/ \E outcome \in StageOutcomes(DiscoveryResponses) : DiscoveryStage(outcome)
    \/ \E outcome \in StageOutcomes(QueryResponses) : QueryGenerationStage(outcome)
    \/ \E out \in query_cypher(kg, state.sql) : ExecuteQuery(out)
    \/ \E outcome \in StageOutcomes(TrustResponses) : ValidationStage(outcome)
    \/ \E outcome \in StageOutcomes(AnalysisResponses) : AnalysisStage(outcome)
    \/ FinishQuery
    \/ QueryDone

SpecPipeline == InitPipeline /\ [][NextPipeline]_vars

\* ------------------------------------------------------------------------
\* Reading a run of the pipeline
\* ------------------------------------------------------------------------
\* The positions in the log at which a stage was attempted.
StageEvents == {i \in DOMAIN log : log[i].op = "stage"}

StageEventsOf(stage) == {i \in StageEvents : log[i].name = stage}

\* All five stages are behind the run.
StagesOver == ppc \in {"assembled", "done", "raised"}

StageNames(steps) == [i \in DOMAIN steps |-> steps[i].stage]

Malformed(i) ==
    /\ log[i].outcome.kind = "return"
    /\ ~DecodesToMapping(log[i].outcome.text)

StoreFailed(i) ==
    /\ log[i].op = "query_cypher"
    /\ log[i].name = "raised" \/ kg = "fallback"

\* ------------------------------------------------------------------------
\* C16  Store failure handling.  When the execution of the generated query
\* fails, or the store is unavailable, the failure is recorded in the trace,
\* and the validation and analysis stages come next and are attempted on an
\* empty result set.
\* ------------------------------------------------------------------------
StoreFailureHandling ==
    \A i \in DOMAIN log :
        StoreFailed(i) =>
            /\ state.steps[3].execution_error # NoError
            /\ \A j \in StageEventsOf("validation") \cup StageEventsOf("analysis") :
                  log[j].rows = << >>
            /\ ppc = "validation" \/ StageEventsOf("validation") # {}
            /\ ppc \in {"validation", "analysis"} \/ StageEventsOf("analysis") # {}

\* ------------------------------------------------------------------------
\* C17  No hard abort for the caller.  On an initialized system, whatever
\* result process_query returns, ADOSSystem.query does not raise: when it has
\* ended the caller has a result mapping.
\* ------------------------------------------------------------------------
NoHardAbort ==
    /\ ppc # "raised"
    /\ ~result.raised
    /\ ppc = "done" => "status" \in DOMAIN result.value

\* The run has ended: query has returned or an exception has left it.
QueryEnded == ppc \in {"done", "raised"}

\* governance.validate_query was called on text after the query-generation
\* stage and answered status.
ValidatedAfterGeneration(text, status) ==
    \E i \in StageEventsOf("query_generation") :
        \E j \in DOMAIN log :
            /\ j > i
            /\ log[j].op = "validate_query"
            /\ log[j].text = text
            /\ log[j].name = status

\* ------------------------------------------------------------------------
\* C20  Governance check ordering.  In every run that generated a non-empty
\* query text, governance validate_query is called on that text after the
\* query-generation stage, and the result the caller gets reports its status
\* as governance_query_check next to the validation stage's own judgment,
\* which it leaves as the stage produced it.
\* ------------------------------------------------------------------------
GovernanceCheckReported ==
    (QueryEnded /\ state.sql # << >>) =>
        /\ ValidatedAfterGeneration(state.sql, validate_query(state.sql))
        /\ ~result.raised
        /\ "governance_query_check" \in DOMAIN result.value
        /\ result.value["governance_query_check"] = validate_query(state.sql)
        /\ result.value["trust"] = state.steps[4].data

\* ------------------------------------------------------------------------
\* SpecConcurrent: two requests call _invoke_with_retry at the same time
\* over the shared cache.  The interpreter runs one dict operation at a
\* time, so _cache_get is three steps (the read of the entry, the check of
\* its age, the eviction) between which the other request can run.
\* ------------------------------------------------------------------------
Other(p) == CHOOSE q \in Procs : q # p

InFlight(p) == pc[p] \notin {"idle", "done"}

\* The call of request p returns text; the history last is kept by the
\* specifications of one request only.
CallReturns(p, text, trace) ==
    /\ pc' = [pc EXCEPT ![p] = "done"]
    /\ ret' = [ret EXCEPT ![p] = [kind |-> "return", text |-> text, err |-> NoError]]
    /\ tr' = [tr EXCEPT ![p] = trace]
    /\ UNCHANGED last

\* Lines 47-48: if ttl <= 0: return None
LookupPc == IF cache_ttl <= 0 THEN PrimaryPc(0, DefaultMaxRetries) ELSE "cache_read"

\* Lines 116-120: the call starts and computes the key.
StartCall(p, chain, params) ==
    /\ pc[p] = "idle"
    /\ Cardinality(stored) < MaxStored
    /\ pc' = [pc EXCEPT ![p] = LookupPc]
    /\ loc' = [loc EXCEPT ![p] =
                 [NoLocals EXCEPT !.chain = chain, !.params = ParamSet(params),
                                  !.max_retries = DefaultMaxRetries,
                                  !.ckey = _cache_key(params)]]
    /\ tr' = [tr EXCEPT ![p] = NoTrace]
    /\ ret' = [ret EXCEPT ![p] = NoReturn]
    /\ concurrent' = InFlight(Other(p))
    /\ UNCHANGED <<pipeline_vars, settings, horizon, now, _llm_cache, last, stored>>

\* Lines 49-51: entry = _llm_cache.get(key); if entry is None: return None
CacheRead(p) ==
    /\ pc[p] = "cache_read"
    /\ IF loc[p].ckey \in DOMAIN _llm_cache
       THEN /\ loc' = [loc EXCEPT ![p].entry = _llm_cache[loc[p].ckey]]
            /\ pc' = [pc EXCEPT ![p] = "cache_check"]
       ELSE /\ pc' = [pc EXCEPT ![p] = PrimaryPc(0, loc[p].max_retries)]
            /\ UNCHANGED loc
    /\ UNCHANGED <<pipeline_vars, history_vars, settings, horizon, now, _llm_cache,
                   ret, tr, last>>

\* Lines 52-53 and 56, 121-123: the entry read is fresh; the call returns its
\* value.
CacheHit(p) ==
    /\ pc[p] = "cache_check"
    /\ ~Expired(loc[p].entry, cache_ttl, now)
    /\ CallReturns(p, loc[p].entry[2],
                   [tr[p] EXCEPT !.t0 = now, !.hit = TRUE, !.seen = loc[p].entry])
    /\ UNCHANGED <<pipeline_vars, history_vars, settings, horizon, now, _llm_cache, loc>>

\* Line 53: the entry read is expired.
CacheStale(p) ==
    /\ pc[p] = "cache_check"
    /\ Expired(loc[p].entry, cache_ttl, now)
    /\ pc' = [pc EXCEPT ![p] = "cache_evict"]
    /\ UNCHANGED <<pipeline_vars, history_vars, settings, horizon, now, _llm_cache,
                   loc, ret, tr, last>>

\* A dict operation on a key that is not there.
KeyError == Err({"keyerror"}, 0)

\* Mutant of PopRaises: _llm_cache.pop(key), without the default.
PopRaisesOnMissingKey(cache, key) == key \notin DOMAIN cache

\* dict.pop(key, None) raises on no key: the default is returned for a key
\* that is not there.
PopRaises(cache, key) == FALSE

\* Lines 54-55: _llm_cache.pop(key, None); return None.  The entry that is
\* removed is the one the key has now, if it has one.
CacheEvict(p) ==
    /\ pc[p] = "cache_evict"
    /\ IF PopRaises(_llm_cache, loc[p].ckey)
       THEN /\ Finish(p, loc[p], _llm_cache, "raise", None, KeyError, tr[p])
            /\ UNCHANGED _llm_cache
       ELSE /\ _llm_cache' = DictPop(_llm_cache, loc[p].ckey)
            /\ pc' = [pc EXCEPT ![p] = PrimaryPc(0, loc[p].max_retries)]
            /\ UNCHANGED <<ret, tr, last>>
    /\ UNCHANGED <<pipeline_vars, history_vars, settings, horizon, now, loc>>

\* Lines 130-132: chain.invoke(params) succeeds on the primary model and
\* the response is put into the cache.
ModelOk(p, text) ==
    /\ pc[p] = "primary"
    /\ _llm_cache' = _cache_put(_llm_cache, loc[p].ckey, text, cache_ttl, now)
    /\ stored' = IF cache_ttl > 0
                 THEN stored \cup {[key |-> loc[p].ckey, ts |-> now, text |-> text]}
                 ELSE stored
    /\ CallReturns(p, text,
                   [Called(tr[p], PrimaryModel, TRUE, text, NoError) EXCEPT !.puts = @ + 1])
    /\ UNCHANGED <<pipeline_vars, settings, horizon, now, loc, concurrent>>

\* The messages of the failures that end a call at once.
FatalMessages == {msg \in Messages : PrimaryVerdict(msg) = "raise"}

\* The steps of a request: calls with the default retry budget to a primary
\* model that answers or fails for good.
Request(p) ==
    \/ \E params \in ParamInputs : StartCall(p, "INTENT_PROMPT", params)
    \/ CacheRead(p)
    \/ CacheHit(p)
    \/ CacheStale(p)
    \/ CacheEvict(p)
    \/ \E text \in Texts : ModelOk(p, text)
    \/ \E msg \in FatalMessages : PrimaryFail(p, msg)
    \/ Return(p)

NextConcurrent ==
    \/ \E p \in Procs : Request(p)
    \/ Tick

InitConcurrent ==
    /\ PipelineInit
    /\ NoHistory
    /\ settings \in [cache_ttl_seconds : CacheTTLs, fallback_models : { << << >> >> }]
    /\ horizon = MaxTimeCalls
    /\ now = 0
    /\ _llm_cache = << >>
    /\ pc = [p \in Procs |-> "idle"]
    /\ loc = [p \in Procs |-> NoLocals]
    /\ ret = [p \in Procs |-> NoReturn]
    /\ tr = [p \in Procs |-> NoTrace]
    /\ last = << >>

SpecConcurrent == InitConcurrent /\ [][NextConcurrent]_vars

\* ------------------------------------------------------------------------
\* Reading the calls of two requests
\* ------------------------------------------------------------------------
\* The call of request p has returned a value of the cache.
HitReturned(p) == pc[p] = "done" /\ tr[p].hit

\* A successful model call stored text under key no more than ttl before t.
StoredWithin(key, text, t, ttl) ==
    \E s \in stored :
        /\ s.key = key
        /\ s.text = text
        /\ s.ts <= t
        /\ t - s.ts <= ttl

\* An error that a model call raised.
ModelError(err) == err.id >= 1

\* ------------------------------------------------------------------------
\* C18  Cache integrity under concurrency.  Under every interleaving of the
\* calls of two requests, a cache hit returns a text that a successful model
\* call stored under the same key no more than TTL before the lookup, and a
\* call that raises raises the error of a model call: no lookup, eviction or
\* put fails.
\* ------------------------------------------------------------------------
CacheIntegrity ==
    \A p \in Procs :
        /\ HitReturned(p) =>
              /\ ret[p].kind = "return"
              /\ StoredWithin(loc[p].ckey, ret[p].text, tr[p].t0, cache_ttl)
        /\ (pc[p] = "done" /\ ret[p].kind = "raise") => ModelError(ret[p].err)

\* A request's call is served from the entry that the other request's call,
\* under way at the same time, has stored.
CacheIntegrityWitness ==
    \E p \in Procs :
        /\ concurrent
        /\ HitReturned(p)
        /\ pc[Other(p)] = "done"
        /\ tr[Other(p)].puts = 1
        /\ loc[Other(p)].ckey = loc[p].ckey
        /\ ret[Other(p)].text = ret[p].text

\* Both requests have made the same call at the same time, and both calls
\* have returned.
SameCallTwice ==
    /\ concurrent
    /\ cache_ttl > 0
    /\ \A p \in Procs : pc[p] = "done" /\ ret[p].kind = "return"
    /\ loc["r1"].chain = loc["r2"].chain
    /\ loc["r1"].ckey = loc["r2"].ckey

\* ------------------------------------------------------------------------
\* C19  Cache idempotence across concurrent requests.  When two requests
\* make the same call (same template, same canonical parameters, TTL > 0)
\* at the same time and the model answers, the model is called once across
\* the two calls (not at all when both are served from an entry that an
\* earlier call left) and both calls return the same text.
\* ------------------------------------------------------------------------
ConcurrentIdempotence ==
    SameCallTwice =>
        /\ Len(tr["r1"].calls) + Len(tr["r2"].calls) <= 1
        /\ ret["r1"].text = ret["r2"].text

\* ------------------------------------------------------------------------
\* Reading a step of the invoker
\* ------------------------------------------------------------------------
\* In this step request p starts a call and looks its key up.
LooksUp(p) == pc[p] = "idle" /\ pc'[p] # "idle"

\* The key has an entry that is expired now.
HasExpired(key) ==
    /\ key \in DOMAIN _llm_cache
    /\ Expired(_llm_cache[key], cache_ttl, now)

\* ------------------------------------------------------------------------
\* C21  Lazy eviction.  A lookup that finds an entry older than the TTL
\* reports it absent and removes that entry, and nothing else, in the same
\* step; a lookup of a fresh or missing entry leaves the cache as it was; and
\* no other step removes an entry.
\* ------------------------------------------------------------------------
LazyEviction ==
    [][ /\ \A p \in Procs :
              LooksUp(p) =>
                  IF HasExpired(loc'[p].ckey)
                  THEN /\ ~tr'[p].hit
                       /\ pc'[p] # "done"
                       /\ _llm_cache' = DictPop(_llm_cache, loc'[p].ckey)
                  ELSE _llm_cache' = _llm_cache
        /\ \A key \in DOMAIN _llm_cache :
              key \notin DOMAIN _llm_cache' =>
                  /\ HasExpired(key)
                  /\ \E p \in Procs : LooksUp(p) /\ loc'[p].ckey = key
      ]_vars

\* A lookup has found an expired entry and removed it while the entry of
\* another key stays.
LazyEvictionWitness ==
    /\ pc["r1"] = "primary"
    /\ NCalls("r1") = 0
    /\ tr["r1"].seen # << >>
    /\ tr["r1"].t0 > tr["r1"].seen[1] + cache_ttl
    /\ loc["r1"].ckey \notin DOMAIN _llm_cache
    /\ _llm_cache # << >>

\* The positions of the calls made to a fallback model.
FallbackCalls(p) == {i \in 1..NCalls(p) : Calls(p)[i].model # PrimaryModel}

\* ------------------------------------------------------------------------
\* C22  Escalation order.  All calls to the primary precede all calls to the
\* fallback models, and the primary is not called again once a fallback has
\* been called; when the failures of the primary are all transient rate
\* limits, a fallback is called only after max_retries calls to the primary.
\* ------------------------------------------------------------------------
EscalationOrder ==
    \A p \in Procs :
        /\ \A i \in FallbackCalls(p) : \A j \in (i + 1)..NCalls(p) : j \in FallbackCalls(p)
        /\ FallbackCalls(p) # {} => pc[p] \notin {"primary", "backoff"}
        /\ ( /\ FallbackCalls(p) # {}
             /\ \A i \in 1..NPrimary(p) : TransientRate(Calls(p)[i]) ) =>
               NPrimary(p) = loc[p].max_retries

\* Three transient rate limits of the primary, then the first fallback.
EscalationOrderWitness ==
    /\ loc["r1"].max_retries = 3
    /\ NPrimary("r1") = 3
    /\ \A i \in 1..3 : TransientRate(Calls("r1")[i])
    /\ FallbackCalls("r1") = {4, 5}
    /\ Calls("r1")[4].model = <<"A">>
    /\ Calls("r1")[5].model = <<"B">>

\* The text a stage function that parses JSON has handed to _extract_json.
Extracted == _extract_json(stage_in.outcome.text)

\* The selected text decodes: the {...} span of it, or the whole of it.
selected_decodes(span, whole) == span.ok \/ whole.ok

Decodes(text) ==
    selected_decodes(decode_span(brace_span(text)), json_loads(strip_text(text)))

\* ------------------------------------------------------------------------
\* C23  Structured extraction.  For every text, _extract_json returns a
\* mapping; when the selected text (the first fenced block, else the text)
\* does not decode as JSON, the mapping is {raw: the selected text,
\* parse_error: true}.
\* ------------------------------------------------------------------------
StructuredExtraction ==
    ( /\ StageCalled
      /\ ParsesJson(stage_in.stage)
      /\ stage_in.outcome.kind = "return" ) =>
        /\ Extracted.type = "dict"
        /\ ~Decodes(SelectedText(stage_in.outcome.text)) =>
              Extracted = ParseError(SelectedText(stage_in.outcome.text))

\* The step is a model call of p that succeeds.
Succeeds(p) ==
    /\ Len(tr'[p].calls) = Len(tr[p].calls) + 1
    /\ tr'[p].calls[Len(tr'[p].calls)].ok

\* The step ends the call of p with an exception.
EndsRaising(p) == ~Done(p) /\ pc'[p] = "done" /\ ret'[p].kind = "raise"

\* The entry of key is new or has changed in the step.
Written(key) == key \notin DOMAIN _llm_cache \/ _llm_cache'[key] # _llm_cache[key]

\* ------------------------------------------------------------------------
\* C24  Only successes are cached.  An entry is written into the cache only
\* by a model call that succeeds, under the key of the invocation and with
\* the text of that call; the step that ends an invocation with an
\* exception leaves the cache as it was, and the invocation has put nothing.
\* ------------------------------------------------------------------------
OnlySuccessesCached ==
    [][ /\ \A key \in DOMAIN _llm_cache' :
              Written(key) =>
                  \E p \in Procs :
                      /\ Succeeds(p)
                      /\ key = loc[p].ckey
                      /\ _llm_cache'[key] = <<now, tr'[p].calls[Len(tr'[p].calls)].text>>
        /\ \A p \in Procs :
              EndsRaising(p) =>
                  /\ _llm_cache' = _llm_cache
                  /\ tr'[p].puts = 0
                  /\ loc[p].ckey \notin DOMAIN _llm_cache
      ]_vars

\* A call has failed on the primary and on every fallback and raised, while
\* the cache holds the text of an earlier call that succeeded, and nothing
\* under the key of the call that raised.
OnlySuccessesCachedWitness ==
    /\ Raised("r1")
    /\ NCalls("r1") = DefaultMaxRetries + Len(Fallbacks)
    /\ cache_ttl > 0
    /\ _llm_cache # << >>
    /\ \A key \in DOMAIN _llm_cache : _llm_cache[key][2] \in Texts
    /\ loc["r1"].ckey \notin DOMAIN _llm_cache

\* ------------------------------------------------------------------------
\* SpecFair: Spec with a thread that keeps running: a step of the call that
\* can be taken (the model answers or fails, a sleep ends) is taken.
\* ------------------------------------------------------------------------
SpecFair == Init /\ [][Next]_vars /\ WF_vars(Step("r1"))

\* ------------------------------------------------------------------------
\* C25  Bounded termination.  A call never makes more than max_retries calls
\* to the primary model nor more calls to fallback models than there are
\* configured ones, and every call that has started ends: it returns a text
\* or raises.
\* ------------------------------------------------------------------------
BoundedTermination ==
    /\ [](\A p \in Procs :
            /\ NPrimary(p) <= loc[p].max_retries
            /\ Cardinality(FallbackCalls(p)) <= Len(Fallbacks)
            /\ \A i \in FallbackCalls(p) : Calls(p)[i].model = Fallbacks[i - NPrimary(p)])
    /\ \A p \in Procs :
          (Running(p) /\ ~Done(p)) ~> (Done(p) /\ ret[p].kind \in {"return", "raise"})

\* Every model has been called and has failed with a rate limit: three
\* calls to the primary, one to each of three fallbacks, and the call raises.
BoundedTerminationWitness ==
    /\ Raised("r1")
    /\ loc["r1"].max_retries = 3
    /\ NPrimary("r1") = 3
    /\ Len(Fallbacks) = 3
    /\ Cardinality(FallbackCalls("r1")) = 3
    /\ Len(tr["r1"].sleeps) = 6



\* The sleeps made before the first call to a fallback model.
SleepsOfPrimary(p) == SelectSeq(tr[p].sleeps, LAMBDA s : s.after <= NPrimary(p))

\* The primary loop of p is over.
PrimaryLoopOver(p) == Running(p) /\ pc[p] \notin {"primary", "backoff"}

\* ------------------------------------------------------------------------
\* C26  One back-off sleep per rate-limited primary attempt.  A primary call
\* that fails with a transient rate limit is followed by one back-off sleep,
\* the last call of the budget included; when all max_retries = n primary
\* calls are rate-limited, the sleeps made before the first fallback call
\* are exactly n back-offs of 1, 2, ..., 2^(n-1) seconds.
\* ------------------------------------------------------------------------
BackoffPerAttempt ==
    \A p \in Procs :
        /\ \A i \in 1..NPrimary(p) :
              (TransientRate(Calls(p)[i]) /\ (i < NCalls(p) \/ PrimaryLoopOver(p))) =>
                  /\ Len(SleepsAfter(p, i)) = 1
                  /\ IsBackoff(SleepsAfter(p, i)[1])
                  /\ SleepsAfter(p, i)[1].secs = BackoffSeconds[i]
        /\ ( /\ PrimaryLoopOver(p)
             /\ NPrimary(p) = loc[p].max_retries
             /\ \A i \in 1..NPrimary(p) : TransientRate(Calls(p)[i]) ) =>
               /\ Len(SleepsOfPrimary(p)) = loc[p].max_retries
               /\ \A k \in 1..loc[p].max_retries :
                     /\ IsBackoff(SleepsOfPrimary(p)[k])
                     /\ SleepsOfPrimary(p)[k].secs = BackoffSeconds[k]
                     /\ SleepsOfPrimary(p)[k].after = k

\* Three rate-limited primary calls, three back-offs (1, 2 and 4 seconds, the
\* last after the last call of the budget), and the first fallback is next.
BackoffPerAttemptWitness ==
    /\ pc["r1"] = "fallback"
    /\ loc["r1"].max_retries = 3
    /\ NCalls("r1") = 3
    /\ \A i \in 1..3 : TransientRate(Calls("r1")[i])
    /\ Len(tr["r1"].sleeps) = 3
    /\ tr["r1"].sleeps[3].secs = 4
    /\ now = 7

\* ------------------------------------------------------------------------
\* C27  Eviction race.  Whatever the interleaving of one request's lookup
\* with another request's put on the same key, no step takes out of the
\* cache an entry that is still within its TTL.
\* ------------------------------------------------------------------------
EvictionRace ==
    [][ \A key \in DOMAIN _llm_cache :
            key \notin DOMAIN _llm_cache' => Expired(_llm_cache[key], cache_ttl, now)
      ]_vars

\* The payload says the result is rejected.
Rejects(payload) == "approved" \in DOMAIN payload /\ payload["approved"] = "false"

\* The parsed response of the model holds approved = false.
RespondsRejected(parsed) == parsed.type = "dict" /\ Rejects(parsed.value)

\* ------------------------------------------------------------------------
\* C28  The validation stage defaults to approval.  When the invocation of
\* run_trust_agent's model fails, the result has status error and its payload
\* is approved = true, trust_score = 50 and the error text; the payload of a
\* result holds approved = false only when the model answered and its parsed
\* response holds approved = false.
\* ------------------------------------------------------------------------
ValidationDefaultsToApproval ==
    ( /\ StageCalled
      /\ stage_in.stage = "validation"
      /\ RowsAreMappings(stage_in.result_data) ) =>
        /\ ~stage_out.raised
        /\ stage_in.outcome.kind = "raise" =>
              /\ stage_out.result.status = "error"
              /\ DOMAIN Payload = {"approved", "trust_score", "error"}
              /\ Payload["approved"] = "true"
              /\ Payload["trust_score"] = "50"
              /\ Payload["error"] = stage_in.outcome.err.msg
        /\ Rejects(Payload) =>
              /\ stage_in.outcome.kind = "return"
              /\ stage_out.result.status = "success"
              /\ RespondsRejected(_extract_json(stage_in.outcome.text))

\* The invocation has failed and the result approves.
ValidationDefaultsToApprovalWitness ==
    /\ StageCalled
    /\ stage_in.stage = "validation"
    /\ stage_in.result_data = <<"row">>
    /\ stage_in.outcome.kind = "raise"
    /\ stage_out.result.status = "error"
    /\ Payload["approved"] = "true"



\* ------------------------------------------------------------------------
\* Reading the access check and the result of a query
\* ------------------------------------------------------------------------
AccessEvents == {i \in DOMAIN log : log[i].op = "check_access"}

\* The data products the role of the query was denied access to.
DeniedProducts == {log[i].name : i \in {j \in AccessEvents : log[j].payload["allowed"] = "false"}}

QueryRunning == ppc # "idle"

\* The fields query adds to the result of process_query.
AddedFields ==
    {"governance_query_check", "semantic_enrichment", "quality_scores", "governance_status"}

\* The result the caller gets is the one process_query returned, with
\* nothing but the fields of AddedFields put on top.
ResultIsPipelines ==
    /\ ~result.raised
    /\ DOMAIN PipelineResult \subseteq DOMAIN result.value
    /\ DOMAIN result.value \ DOMAIN PipelineResult \subseteq AddedFields
    /\ \A f \in DOMAIN PipelineResult : result.value[f] = PipelineResult[f]

Rejected == \E i \in DOMAIN log : log[i].op = "validate_query" /\ log[i].name = "fail"

\* The products the discovery payload of the result names.
DiscoveredProducts ==
    ElementsOf(discovery_get(PipelineResult, "relevant_products", "list[]"))

UsageRecorded(product) ==
    \E i \in DOMAIN log : log[i].op = "record_usage" /\ log[i].name = product

\* ------------------------------------------------------------------------
\* C30  Effect of a governance rejection.  When validate_query has answered
\* fail, query still returns: the result is the one the pipeline returned
\* (status, query text, rows, stage payloads) with governance_query_check =
\* fail put on it, and the usage of every discovered product is recorded.
\* ------------------------------------------------------------------------
GovernanceRejectionEffect ==
    (QueryEnded /\ Rejected) =>
        /\ ResultIsPipelines
        /\ result.value["governance_query_check"] = "fail"
        /\ \A i \in DOMAIN DiscoveredProducts : UsageRecorded(DiscoveredProducts[i])

====
